---- MODULE Spec2Model ----
(***************************************************************************)
(* Order orchestration saga of the e-commerce microservices:               *)
(*   order-service   createOrder / updateOrderStatus / cancelOrder         *)
(*   payment-service processPayment (+ validation middleware, simulator,   *)
(*                   RabbitMQ publisher)                                   *)
(*   customer-/product-service lookups and the stock update                *)
(*   transaction-worker RabbitMQ consumer (audit records)                  *)
(***************************************************************************)
EXTENDS Integers, Sequences, FiniteSets, TLC

VARIABLES
    products,   \* product store: productId -> [stock, isActive]
    orders,     \* order store: sequence of Order documents
    payments,   \* payment store: sequence of Payment documents
    queue,      \* transaction_queue: messages published and not yet delivered
    saga,       \* per createOrder request: position and locals of the handler
    charge,     \* per createOrder request: the POST /api/payments it caused
    audit,      \* transaction history store: sequence of audit records
    worker,     \* per consumer instance: the unacknowledged message in hand
    settled,    \* log of the messages acknowledged or rejected so far
    delivered,  \* number of messages put on the queue by the broker scenario
    api,        \* the last answer of PATCH /api/orders/:orderId/status|cancel,
                \* or of PATCH /api/products/:productId/stock in the stock flow
    patch       \* per concurrent stock request: position and locals of the handler

vars ==
    <<products, orders, payments, queue, saga, charge, audit, worker, settled,
      delivered, api, patch>>

----------------------------------------------------------------------------
(* Bounds of the model *)

MaxSagas == 1       \* createOrder requests per behaviour
InitStock == 1      \* stock of the sellable product at start
MaxDeliveries == 3  \* messages the audit scenario puts on the queue
MaxWorkers == 2     \* consumer instances on the queue
MaxStock == 3       \* stock a client of the product service may build up
MaxClients == 2     \* concurrent requests to the stock endpoint

(* Program constants *)

Ceiling == 100000000   \* simulatePaymentProcessing: amount > 100000000
Floor == 1             \* simulatePaymentProcessing: amount < 1
MinCents == 10         \* Joi.number().min(0.01), in thousandths

Undefined == "<undefined>"

----------------------------------------------------------------------------
(* Amounts are JS numbers; the model keeps thousandths exactly:            *)
(* value = whole + milli/1000 with 0 <= milli < 1000.                      *)

Amt(w, m) == [whole |-> w, milli |-> m]

Less(a, b) == a.whole < b.whole \/ (a.whole = b.whole /\ a.milli < b.milli)

Leq(a, b) == a = b \/ Less(a, b)

Zero == Amt(0, 0)

Amounts ==
    { Amt(0 - 1, 0), Zero, Amt(0, 5), Amt(0, 500), Amt(50000, 0),
      Amt(Ceiling, 0), Amt(Ceiling + 1, 0) }

----------------------------------------------------------------------------
(* Stores of the collaborators *)

\* customer collection: CUST_1 active, CUST_2 soft-deleted; INVALID absent
customers ==
    [c \in {"CUST_1", "CUST_2"} |-> [isActive |-> (c = "CUST_1")]]

CustomerIds == {"CUST_1", "CUST_2", "INVALID"}

ProductIds == {"PROD_1", "PROD_2", "PROD_3", "INVALID"}

\* product collection at start: PROD_1 in stock, PROD_2 soft-deleted,
\* PROD_3 sold out
InitProducts ==
    [p \in {"PROD_1", "PROD_2", "PROD_3"} |->
        [stock |-> IF p = "PROD_3" THEN 0 ELSE InitStock,
         isActive |-> (p # "PROD_2")]]

OrderStatus ==
    {"pending", "confirmed", "processing", "shipped", "delivered", "cancelled"}

\* an HTTP/transport fault of one inter-service call
Faults == {"none", "refused", "timeout", "error500"}

----------------------------------------------------------------------------
(* utils *)

\* createServiceResponse(success, data, error, statusCode)
createServiceResponse(success, error, statusCode) ==
    [success |-> success, error |-> error, statusCode |-> statusCode]

NullData == [orderId |-> 0, orderStatus |-> "null", amount |-> Zero]

\* createApiResponse(success, data, message, error) sent with res.status(code)
createApiResponse(code, success, data, message, error) ==
    [status |-> code, success |-> success, data |-> data,
     message |-> message, error |-> error]

NoResponse == createApiResponse(0, FALSE, NullData, Undefined, Undefined)

\* !data[field] || data[field].trim() === '' for a string field
Blank(s) == s = "" \/ s = Undefined

\* validateRequiredFields(orderData, ['customerId', 'productId', 'amount']):
\* a field is missing when it is falsy; the number 0 is falsy
validateRequiredFields(body) ==
    ~Blank(body.customerId) /\ ~Blank(body.productId) /\ body.amount # Zero

\* statusCode || 400
CodeOr(code, dflt) == IF code = 0 THEN dflt ELSE code

\* message || fallback
TextOr(text, dflt) == IF Blank(text) THEN dflt ELSE text

----------------------------------------------------------------------------
(* customer-service: GET /api/customers/:customerId *)

\* mutant: the lookup without the isActive filter
getCustomerById_AnyCustomer(cid, fault) ==
    IF fault = "error500"
    THEN createApiResponse(500, FALSE, NullData, "Internal server error",
                           "Failed to retrieve customer")
    ELSE IF cid \in DOMAIN customers
    THEN createApiResponse(200, TRUE, NullData,
                           "Customer retrieved successfully", Undefined)
    ELSE createApiResponse(404, FALSE, NullData, "Customer not found", Undefined)

\* CustomerModel.findOne({ customerId, isActive: true })
getCustomerById(cid, fault) ==
    IF fault = "error500"
    THEN createApiResponse(500, FALSE, NullData, "Internal server error",
                           "Failed to retrieve customer")
    ELSE IF cid \in DOMAIN customers /\ customers[cid].isActive
    THEN createApiResponse(200, TRUE, NullData,
                           "Customer retrieved successfully", Undefined)
    ELSE createApiResponse(404, FALSE, NullData, "Customer not found", Undefined)

(* order-service client: validateCustomer *)

validateCustomer(cid, fault) ==
    LET res == getCustomerById(cid, fault) IN
    IF fault = "refused"
    THEN createServiceResponse(FALSE, "Customer service unavailable", 503)
    ELSE IF fault = "timeout"
    THEN createServiceResponse(FALSE, "Internal server error", 500)
    ELSE IF res.status >= 300
    THEN createServiceResponse(FALSE, TextOr(res.message, "Customer service error"),
                               res.status)
    ELSE IF res.success
    THEN createServiceResponse(TRUE, Undefined, 200)
    ELSE createServiceResponse(FALSE, "Customer not found or inactive", 404)

----------------------------------------------------------------------------
(* product-service: GET /api/products/:productId *)

\* ProductModel.findOne({ productId, isActive: true })
FindActiveProduct(store, pid) == pid \in DOMAIN store /\ store[pid].isActive

getProductById(store, pid, fault) ==
    IF fault = "error500"
    THEN createApiResponse(500, FALSE, NullData, "Internal server error",
                           "Failed to retrieve product")
    ELSE IF FindActiveProduct(store, pid)
    THEN createApiResponse(200, TRUE, NullData,
                           "Product retrieved successfully", Undefined)
    ELSE createApiResponse(404, FALSE, NullData, "Product not found", Undefined)

(* order-service client: validateProduct(productId, quantity) *)

\* mutant: the client accepts every product the lookup returns
validateProduct_NoStockCheck(store, pid, quantity, fault) ==
    LET res == getProductById(store, pid, fault) IN
    IF fault = "refused"
    THEN createServiceResponse(FALSE, "Product service unavailable", 503)
    ELSE IF fault = "timeout"
    THEN createServiceResponse(FALSE, "Internal server error", 500)
    ELSE IF res.status >= 300
    THEN createServiceResponse(FALSE, TextOr(res.message, "Product service error"),
                               res.status)
    ELSE createServiceResponse(TRUE, Undefined, 200)

validateProduct(store, pid, quantity, fault) ==
    LET res == getProductById(store, pid, fault) IN
    IF fault = "refused"
    THEN createServiceResponse(FALSE, "Product service unavailable", 503)
    ELSE IF fault = "timeout"
    THEN createServiceResponse(FALSE, "Internal server error", 500)
    ELSE IF res.status >= 300
    THEN createServiceResponse(FALSE, TextOr(res.message, "Product service error"),
                               res.status)
    ELSE IF res.success
    THEN IF store[pid].isActive /\ store[pid].stock >= quantity
         THEN createServiceResponse(TRUE, Undefined, 200)
         ELSE createServiceResponse(FALSE,
                  "Product not available or insufficient stock", 400)
    ELSE createServiceResponse(FALSE, "Product not found", 404)

(* product-service: PATCH /api/products/:productId/stock *)

\* mutant: the handler does not compare the stock with the quantity
StockUpdateCode_NoStockCheck(store, pid, quantity, operation, fault) ==
    IF fault = "error500" THEN 500
    ELSE IF quantity <= 0 THEN 400
    ELSE IF ~FindActiveProduct(store, pid) THEN 404
    ELSE IF operation \notin {"decrease", "increase"} THEN 400
    ELSE 200

\* the HTTP status the handler answers with
StockUpdateCode(store, pid, quantity, operation, fault) ==
    IF fault = "error500" THEN 500
    ELSE IF quantity <= 0 THEN 400
    ELSE IF ~FindActiveProduct(store, pid) THEN 404
    ELSE IF operation = "decrease" /\ store[pid].stock < quantity THEN 400
    ELSE IF operation \notin {"decrease", "increase"} THEN 400
    ELSE 200

\* mutant: the handler answers without writing the new stock
StockUpdateStore_NoWrite(store, pid, quantity, operation, fault) == store

\* the product collection after the handler ran
StockUpdateStore(store, pid, quantity, operation, fault) ==
    IF StockUpdateCode(store, pid, quantity, operation, fault) # 200 THEN store
    ELSE IF operation = "decrease"
    THEN [store EXCEPT ![pid].stock = @ - quantity]
    ELSE [store EXCEPT ![pid].stock = @ + quantity]

\* the concurrent requests to the stock endpoint, one request each
ClientIds == 1..MaxClients

\* a request that has not arrived: stock is the stock of the in-memory
\* document the handler is about to save; once a request is answered only
\* its status is kept, and for a 200 the product, operation and quantity
NoPatch ==
    [pc |-> "idle", productId |-> "", quantity |-> 0, operation |-> "",
     stock |-> 0, code |-> 0]

(* order-service client: updateProductStock(productId, quantity) *)

updateProductStock(store, pid, quantity, fault) ==
    LET code == StockUpdateCode(store, pid, quantity, "decrease", fault) IN
    IF fault \in {"refused", "timeout"}
    THEN createServiceResponse(FALSE, "Product service unavailable", 503)
    ELSE IF code >= 300
    THEN createServiceResponse(FALSE,
             IF code = 500 THEN "Internal server error"
             ELSE IF code = 404 THEN "Product not found"
             ELSE "Insufficient stock", code)
    ELSE createServiceResponse(TRUE, Undefined, 200)

----------------------------------------------------------------------------
(* payment-service *)

\* validateCreatePayment: Joi schema of POST /api/payments
validateCreatePayment(data) ==
    /\ ~Blank(data.customerId) /\ ~Blank(data.productId)
    /\ data.orderId # 0
    /\ ~Less(data.amount, Amt(0, MinCents))

\* simulatePaymentProcessing(payment): isSuccess is Math.random() > 0.05 and
\* coin is the Math.random() > 0.5 that picks between the two in-range reasons
simulatePaymentProcessing(payment, txn, isSuccess, coin) ==
    IF isSuccess
    THEN [success |-> TRUE, transactionId |-> txn, error |-> Undefined]
    ELSE [success |-> FALSE, transactionId |-> 0,
          error |-> IF Less(Amt(Ceiling, 0), payment.amount)
                    THEN "Transaction amount exceeds limit"
                    ELSE IF Less(payment.amount, Amt(Floor, 0))
                    THEN "Minimum transaction amount not met"
                    ELSE IF coin THEN "Insufficient funds"
                    ELSE "Card declined by issuer"]

\* mutant: the message is published without the amount of the payment
TransactionMessage_ZeroAmount(payment, txn) ==
    [transactionId |-> txn, customerId |-> payment.customerId,
     orderId |-> payment.orderId, productId |-> payment.productId,
     amount |-> Zero]

\* the TransactionMessage published after a completed payment
TransactionMessage(payment, txn) ==
    [transactionId |-> txn, customerId |-> payment.customerId,
     orderId |-> payment.orderId, productId |-> payment.productId,
     amount |-> payment.amount]

NoPaymentData == [customerId |-> "", orderId |-> 0, productId |-> "", amount |-> Zero]

NoCharge ==
    [pc |-> "none", paymentIdx |-> 0, data |-> NoPaymentData, http |-> NoResponse]

\* new PaymentModel({...paymentData, status: PENDING, paymentDate}) with a completed status
NewPayment_Completed(paymentId, paymentData) ==
    [paymentId |-> paymentId, orderId |-> paymentData.orderId,
     customerId |-> paymentData.customerId, productId |-> paymentData.productId,
     amount |-> paymentData.amount, status |-> "completed", transactionId |-> paymentId]

\* new PaymentModel({...paymentData, status: PENDING, paymentDate}) without the customerId
NewPayment_Anonymous(paymentId, paymentData) ==
    [paymentId |-> paymentId, orderId |-> paymentData.orderId,
     customerId |-> "", productId |-> paymentData.productId,
     amount |-> paymentData.amount, status |-> "pending", transactionId |-> 0]

\* new PaymentModel({...paymentData, status: PENDING, paymentDate}): the
\* document processPayment saves first, its paymentId freshly generated
NewPayment(paymentId, paymentData) ==
    [paymentId |-> paymentId, orderId |-> paymentData.orderId,
     customerId |-> paymentData.customerId, productId |-> paymentData.productId,
     amount |-> paymentData.amount, status |-> "pending", transactionId |-> 0]

\* processPayment, up to the first save: the validation middleware, then the
\* Payment document is created in status pending
ProcessPaymentCreate(r, saveOk) ==
    /\ charge[r].pc = "received"
    /\ LET data == charge[r].data IN
       IF ~validateCreatePayment(data)
       THEN /\ charge' = [charge EXCEPT ![r].pc = "responded",
                   ![r].http = createApiResponse(400, FALSE, NullData,
                                   "Validation failed", "amount must be >= 0.01")]
            /\ UNCHANGED payments
       ELSE IF ~saveOk
       THEN /\ charge' = [charge EXCEPT ![r].pc = "responded",
                   ![r].http = createApiResponse(500, FALSE, NullData,
                                   "Internal server error", "Failed to process payment")]
            /\ UNCHANGED payments
       ELSE /\ payments' = Append(payments, NewPayment(Len(payments) + 1, data))
            /\ charge' = [charge EXCEPT ![r].pc = "pending",
                                        ![r].paymentIdx = Len(payments) + 1]
    /\ UNCHANGED <<products, orders, queue, saga, audit, worker, settled, delivered, api, patch>>

\* processPayment, after the simulated gateway answered: the outcome is
\* written to the Payment document (completed or failed)
ProcessPaymentSettle(r, isSuccess, coin, saveOk) ==
    /\ charge[r].pc = "pending"
    /\ LET i == charge[r].paymentIdx
           result == simulatePaymentProcessing(payments[i], i, isSuccess, coin)
       IN
       IF ~saveOk
       THEN /\ charge' = [charge EXCEPT ![r].pc = "responded",
                   ![r].http = createApiResponse(500, FALSE, NullData,
                                   "Internal server error", "Failed to process payment")]
            /\ UNCHANGED payments
       ELSE IF result.success
       THEN /\ payments' = [payments EXCEPT ![i].status = "completed",
                                            ![i].transactionId = result.transactionId]
            /\ charge' = [charge EXCEPT ![r].pc = "publish"]
       ELSE /\ payments' = [payments EXCEPT ![i].status = "failed"]
            /\ charge' = [charge EXCEPT ![r].pc = "responded",
                   ![r].http = createApiResponse(400, FALSE, NullData,
                                   "Payment processing failed", result.error)]
    /\ UNCHANGED <<products, orders, queue, saga, audit, worker, settled, delivered, api, patch>>

\* rabbitMQService.publishTransaction sending the message twice
publishTransaction_Twice(q, message, published) ==
    IF published THEN Append(Append(q, message), message) ELSE q

\* rabbitMQService.publishTransaction: published is FALSE when the channel
\* is missing or sendToQueue throws
publishTransaction(q, message, published) ==
    IF published THEN Append(q, message) ELSE q

\* the PaymentResponse object of a completed payment
PaymentResponse(savedPayment) ==
    [success |-> TRUE, paymentId |-> savedPayment.paymentId,
     transactionId |-> savedPayment.transactionId]

\* the answer after the publish, were a failed publish propagated
PaymentProcessed_FailOnPublish(savedPayment, messagePublished) ==
    IF messagePublished
    THEN createApiResponse(201, TRUE, PaymentResponse(savedPayment),
                           "Payment processed successfully", Undefined)
    ELSE createApiResponse(500, FALSE, NullData,
                           "Internal server error", "Failed to process payment")

\* the answer after the publish: messagePublished is only logged
PaymentProcessed(savedPayment, messagePublished) ==
    createApiResponse(201, TRUE, PaymentResponse(savedPayment),
                      "Payment processed successfully", Undefined)

\* processPayment, after the completed save: publish, then answer 201
ProcessPaymentPublish(r, published) ==
    /\ charge[r].pc = "publish"
    /\ LET i == charge[r].paymentIdx IN
       /\ queue' = publishTransaction(queue,
                       TransactionMessage(payments[i], payments[i].transactionId),
                       published)
       /\ charge' = [charge EXCEPT ![r].pc = "responded",
              ![r].http = PaymentProcessed(payments[i], published)]
    /\ UNCHANGED <<products, orders, payments, saga, audit, worker, settled, delivered, api, patch>>

(* order-service client: processPayment(customerId, orderId, productId, amount) *)

\* http is the answer of POST /api/payments; fault is the transport failure
processPayment(http, fault) ==
    IF fault = "refused"
    THEN createServiceResponse(FALSE, "Payment service unavailable", 503)
    ELSE IF fault = "timeout"
    THEN createServiceResponse(FALSE, "Internal server error", 500)
    ELSE IF http.status >= 300
    THEN createServiceResponse(FALSE, TextOr(http.message, "Payment service error"),
                               http.status)
    ELSE IF http.success /\ http.data # NullData
    THEN createServiceResponse(TRUE, Undefined, 200)
    ELSE createServiceResponse(FALSE, TextOr(http.message, "Payment processing failed"),
                               400)

----------------------------------------------------------------------------
(* order-service: createOrder *)

SagaIds == 1..MaxSagas

NoBody == [customerId |-> "", productId |-> "", amount |-> Zero, orderId |-> 0]

\* the request of the integration test, and the requests that differ from
\* it in one field
\* (orderId 0: the body has no orderId field)
GoodBody ==
    [customerId |-> "CUST_1", productId |-> "PROD_1", amount |-> Amt(50000, 0),
     orderId |-> 0]

Bodies ==
    {b \in [customerId : CustomerIds, productId : ProductIds, amount : Amounts,
            orderId : {0}] :
        Cardinality({f \in {"customerId", "productId", "amount"} : b[f] # GoodBody[f]}) <= 1}

\* an orderId field put in the request body by the client
ClientOrderId == 99

\* the requests of a client of the order API: the good request, without and
\* with an orderId field of its own
ApiBodies == {GoodBody, [GoodBody EXCEPT !.orderId = ClientOrderId]}

NoResult == createServiceResponse(FALSE, Undefined, 0)

\* req: the request body; orderIdx: the saved document (0: none);
\* calls: the collaborator calls this request has made, in order;
\* paymentResult: what processPayment returned
NoSaga ==
    [pc |-> "idle", req |-> NoBody, orderIdx |-> 0, calls |-> <<>>,
     paymentResult |-> NoResult, response |-> NoResponse]

\* one call of a collaborator: the operation, the transport fault it met
\* and the success flag of its ServiceResponse
Call(op, fault, v) == [op |-> op, fault |-> fault, success |-> v.success]

\* mutant: the handler returns without sending the response
Respond_NoSend(r, response) ==
    [saga EXCEPT ![r].pc = "done"]

\* res.status(code).json(response); return
Respond(r, response) ==
    [saga EXCEPT ![r].pc = "done", ![r].response = response]

\* the order projection of the success response
OrderResponse(order) ==
    [orderId |-> order.orderId, orderStatus |-> order.orderStatus,
     amount |-> order.amount]

InternalError ==
    createApiResponse(500, FALSE, NullData, "Internal server error",
                      "Failed to create order")

\* mutant: the amount check written as amount === 0
AmountRejected_ZeroOnly(amount) == amount = Zero

\* if (orderData.amount <= 0)
AmountRejected(amount) == Leq(amount, Zero)

\* the handler up to its first await: required fields, then the amount.
\* Requests are taken one after the other: a request is accepted when the
\* requests before it have been answered.
CreateOrder(r, body) ==
    /\ saga[r].pc = "idle"
    /\ \A q \in SagaIds : q < r => saga[q].pc = "done"
    /\ saga' =
        IF ~validateRequiredFields(body)
        THEN [Respond(r, createApiResponse(400, FALSE, NullData,
                  "Validation failed", "amount is required")) EXCEPT ![r].req = body]
        ELSE IF AmountRejected(body.amount)
        THEN [Respond(r, createApiResponse(400, FALSE, NullData,
                  "Amount must be a positive number", Undefined)) EXCEPT ![r].req = body]
        ELSE [saga EXCEPT ![r].pc = "validateCustomer", ![r].req = body]
    /\ UNCHANGED <<products, orders, payments, queue, charge, audit, worker, settled, delivered, api, patch>>

\* Step 1: validate customer exists and is active
ValidateCustomerStep(r, fault) ==
    /\ saga[r].pc = "validateCustomer"
    /\ LET v == validateCustomer(saga[r].req.customerId, fault)
           called == [saga EXCEPT ![r].calls = Append(@, Call("customer", fault, v))]
       IN saga' =
           IF ~v.success
           THEN [called EXCEPT ![r].pc = "done",
                    ![r].response = createApiResponse(CodeOr(v.statusCode, 400),
                        FALSE, NullData, "Customer validation failed", v.error)]
           ELSE [called EXCEPT ![r].pc = "validateProduct"]
    /\ UNCHANGED <<products, orders, payments, queue, charge, audit, worker, settled, delivered, api, patch>>

\* mutant: the handler goes on to save the order whatever the product
\* validation returned
ValidateProductStep_Continue(r, fault) ==
    /\ saga[r].pc = "validateProduct"
    /\ LET v == validateProduct(products, saga[r].req.productId, 1, fault) IN
       saga' = [saga EXCEPT ![r].calls = Append(@, Call("product", fault, v)),
                            ![r].pc = "saveOrder"]
    /\ UNCHANGED <<products, orders, payments, queue, charge, audit, worker, settled, delivered, api, patch>>

\* Step 2: validate product exists and is available
ValidateProductStep(r, fault) ==
    /\ saga[r].pc = "validateProduct"
    /\ LET v == validateProduct(products, saga[r].req.productId, 1, fault)
           called == [saga EXCEPT ![r].calls = Append(@, Call("product", fault, v))]
       IN saga' =
           IF ~v.success
           THEN [called EXCEPT ![r].pc = "done",
                    ![r].response = createApiResponse(CodeOr(v.statusCode, 400),
                        FALSE, NullData, "Product validation failed", v.error)]
           ELSE [called EXCEPT ![r].pc = "saveOrder"]
    /\ UNCHANGED <<products, orders, payments, queue, charge, audit, worker, settled, delivered, api, patch>>

\* new OrderModel({...orderData, orderStatus, orderDate}) and the pre-save
\* hook: an orderId is generated only if the document has none
NewOrderId(body, store) ==
    IF body.orderId # 0 THEN body.orderId ELSE Len(store) + 1

\* Step 3: create order with pending status; the unique index on orderId
\* rejects a second document with the same orderId
SaveOrder(r, saveOk) ==
    /\ saga[r].pc = "saveOrder"
    /\ IF /\ saveOk
          /\ \A i \in 1..Len(orders) :
                 orders[i].orderId # NewOrderId(saga[r].req, orders)
       THEN /\ orders' = Append(orders,
                   [orderId |-> NewOrderId(saga[r].req, orders),
                    customerId |-> saga[r].req.customerId,
                    productId |-> saga[r].req.productId,
                    amount |-> saga[r].req.amount,
                    orderStatus |-> "pending"])
            /\ saga' = [saga EXCEPT ![r].pc = "processPayment",
                                    ![r].orderIdx = Len(orders) + 1]
       ELSE /\ saga' = Respond(r, InternalError)
            /\ UNCHANGED orders
    /\ UNCHANGED <<products, payments, queue, charge, audit, worker, settled, delivered, api, patch>>

\* Steps 4 and 5 after processPayment returned paymentResult: the order is
\* saved as cancelled (failure) or confirmed (success); a rejected save
\* lands in the catch block
SettleOrder(r, fault, http, saveOk) ==
    LET i == saga[r].orderIdx
        paymentResult == processPayment(http, fault)
        called == [saga EXCEPT ![r].paymentResult = paymentResult,
                      ![r].calls = Append(@, Call("payment", fault, paymentResult))]
    IN
    IF ~saveOk
    THEN /\ saga' = [called EXCEPT ![r].pc = "done", ![r].response = InternalError]
         /\ UNCHANGED orders
    ELSE IF ~paymentResult.success
    THEN /\ orders' = [orders EXCEPT ![i].orderStatus = "cancelled"]
         /\ saga' = [called EXCEPT ![r].pc = "done",
                ![r].response = createApiResponse(
                    CodeOr(paymentResult.statusCode, 400), FALSE, NullData,
                    "Payment processing failed", paymentResult.error)]
    ELSE /\ orders' = [orders EXCEPT ![i].orderStatus = "confirmed"]
         /\ saga' = [called EXCEPT ![r].pc = "updateStock"]

\* Step 4: POST /api/payments is sent; a refused connection fails at once
SendPayment(r, fault, saveOk) ==
    /\ saga[r].pc = "processPayment"
    /\ fault \in {"none", "refused"}
    /\ IF fault = "refused"
       THEN /\ SettleOrder(r, fault, NoResponse, saveOk)
            /\ UNCHANGED charge
       ELSE /\ charge' = [charge EXCEPT ![r].pc = "received",
                   ![r].data = [customerId |-> saga[r].req.customerId,
                                orderId |-> orders[saga[r].orderIdx].orderId,
                                productId |-> saga[r].req.productId,
                                amount |-> saga[r].req.amount]]
            /\ saga' = [saga EXCEPT ![r].pc = "awaitPayment"]
            /\ UNCHANGED orders
    /\ UNCHANGED <<products, payments, queue, audit, worker, settled, delivered, api, patch>>

\* the answer of the payment service arrives
PaymentReturn(r, saveOk) ==
    /\ saga[r].pc = "awaitPayment"
    /\ charge[r].pc = "responded"
    /\ SettleOrder(r, "none", charge[r].http, saveOk)
    /\ UNCHANGED <<products, payments, queue, charge, audit, worker, settled, delivered, api, patch>>

\* axios gives up after 10 s while the payment service is still working
PaymentTimeout(r, saveOk) ==
    /\ saga[r].pc = "awaitPayment"
    /\ charge[r].pc # "responded"
    /\ SettleOrder(r, "timeout", NoResponse, saveOk)
    /\ UNCHANGED <<products, payments, queue, charge, audit, worker, settled, delivered, api, patch>>

\* mutant: a failed stock update is surfaced as an error response
OrderCreatedResponse_FailOnStock(savedOrder, stockUpdateResult) ==
    IF stockUpdateResult.success
    THEN createApiResponse(201, TRUE, OrderResponse(savedOrder),
             "Order created and payment processed successfully", Undefined)
    ELSE createApiResponse(CodeOr(stockUpdateResult.statusCode, 400), FALSE, NullData,
             "Stock update failed", stockUpdateResult.error)

\* Step 7: the response after the stock update; stockUpdateResult is only
\* logged
OrderCreatedResponse(savedOrder, stockUpdateResult) ==
    createApiResponse(201, TRUE, OrderResponse(savedOrder),
        "Order created and payment processed successfully", Undefined)

\* Steps 6 and 7: update product stock (its failure is only logged), then
\* answer 201 with the order projection. A refused connection never reaches
\* the product service; on a timeout the product service has handled the
\* request and only its answer is lost
UpdateStockStep(r, fault) ==
    /\ saga[r].pc = "updateStock"
    /\ LET pid == saga[r].req.productId
           savedOrder == [orders[saga[r].orderIdx] EXCEPT !.orderStatus = "confirmed"]
       IN
       /\ products' = IF fault = "refused" THEN products
                      ELSE StockUpdateStore(products, pid, 1, "decrease", fault)
       /\ saga' = [saga EXCEPT ![r].pc = "done",
              ![r].calls = Append(@, Call("stock", fault,
                                updateProductStock(products, pid, 1, fault))),
              ![r].response = OrderCreatedResponse(savedOrder,
                                  updateProductStock(products, pid, 1, fault))]
    /\ UNCHANGED <<orders, payments, queue, charge, audit, worker, settled, delivered, api, patch>>

----------------------------------------------------------------------------
(* order-service: updateOrderStatus and cancelOrder *)

\* OrderModel.findOne({ orderId }): index of the document, 0 when absent
FindOrder(store, orderId) ==
    IF \E i \in 1..Len(store) : store[i].orderId = orderId
    THEN CHOOSE i \in 1..Len(store) :
             /\ store[i].orderId = orderId
             /\ \A j \in 1..(i - 1) : store[j].orderId # orderId
    ELSE 0

\* mutant: a transition table that lets no order leave cancelled
UpdateOrderStatusCode_Guarded(store, orderId, status, saveOk) ==
    IF status \notin OrderStatus THEN 400
    ELSE IF FindOrder(store, orderId) = 0 THEN 404
    ELSE IF store[FindOrder(store, orderId)].orderStatus = "cancelled" THEN 400
    ELSE IF ~saveOk THEN 500
    ELSE 200

\* HTTP status of PATCH /api/orders/:orderId/status
UpdateOrderStatusCode(store, orderId, status, saveOk) ==
    IF status \notin OrderStatus THEN 400
    ELSE IF FindOrder(store, orderId) = 0 THEN 404
    ELSE IF ~saveOk THEN 500
    ELSE 200

\* mutant: cancel without the check of the current status
CancelOrderCode_AnyStatus(store, orderId, saveOk) ==
    IF FindOrder(store, orderId) = 0 THEN 404
    ELSE IF ~saveOk THEN 500
    ELSE 200

\* HTTP status of PATCH /api/orders/:orderId/cancel
CancelOrderCode(store, orderId, saveOk) ==
    IF FindOrder(store, orderId) = 0 THEN 404
    ELSE IF store[FindOrder(store, orderId)].orderStatus \notin {"pending", "confirmed"}
    THEN 400
    ELSE IF ~saveOk THEN 500
    ELSE 200

\* what the client of the order API keeps of an answer: the request and
\* the HTTP status
ApiAnswer(op, orderId, status, code) ==
    [op |-> op, orderId |-> orderId, status |-> status, code |-> code]

NoAnswer == ApiAnswer("none", 0, "", 0)

\* a flow in which nobody reads the answers of the order API keeps none
Unobserved == ApiAnswer("unobserved", 0, "", 0)

Observe(answer) == IF api = Unobserved THEN api ELSE answer

UpdateOrderStatus(orderId, status, saveOk) ==
    /\ orders' =
        IF UpdateOrderStatusCode(orders, orderId, status, saveOk) = 200
        THEN [orders EXCEPT ![FindOrder(orders, orderId)].orderStatus = status]
        ELSE orders
    /\ api' = Observe(ApiAnswer("updateStatus", orderId, status,
                          UpdateOrderStatusCode(orders, orderId, status, saveOk)))
    /\ UNCHANGED <<products, payments, queue, saga, charge, audit, worker, settled, delivered, patch>>

\* mutant: a successful cancel puts the ordered unit back into the stock
CancelOrder_Restock(orderId, saveOk) ==
    /\ orders' =
        IF CancelOrderCode(orders, orderId, saveOk) = 200
        THEN [orders EXCEPT ![FindOrder(orders, orderId)].orderStatus = "cancelled"]
        ELSE orders
    /\ products' =
        IF CancelOrderCode(orders, orderId, saveOk) = 200
        THEN [products EXCEPT ![orders[FindOrder(orders, orderId)].productId].stock = @ + 1]
        ELSE products
    /\ api' = Observe(ApiAnswer("cancel", orderId, "cancelled",
                          CancelOrderCode(orders, orderId, saveOk)))
    /\ UNCHANGED <<payments, queue, saga, charge, audit, worker, settled, delivered, patch>>

CancelOrder(orderId, saveOk) ==
    /\ orders' =
        IF CancelOrderCode(orders, orderId, saveOk) = 200
        THEN [orders EXCEPT ![FindOrder(orders, orderId)].orderStatus = "cancelled"]
        ELSE orders
    /\ api' = Observe(ApiAnswer("cancel", orderId, "cancelled",
                          CancelOrderCode(orders, orderId, saveOk)))
    /\ UNCHANGED <<products, payments, queue, saga, charge, audit, worker, settled, delivered, patch>>

----------------------------------------------------------------------------
(* transaction-worker: RabbitMQConsumer *)

WorkerIds == 1..MaxWorkers

NoMessage ==
    [transactionId |-> 0, customerId |-> "", orderId |-> 0, productId |-> "",
     amount |-> Zero]

Idle == [pc |-> "idle", msg |-> NoMessage]

\* a payload that JSON.parse rejects
NotJson == [raw |-> "{"]

\* JSON.parse(messageContent) returns
Parses(msg) == msg # NotJson

\* validateTransactionMessage(data) without the check of amount
validateTransactionMessage_NoAmountCheck(data) ==
    /\ data.productId # ""
    /\ data.transactionId # 0
    /\ data.customerId # ""
    /\ data.orderId # 0

\* validateTransactionMessage(data): the ids are non-empty strings (the
\* model writes a missing or empty id as 0 or "") and amount is a number >= 0
validateTransactionMessage(data) ==
    /\ data.productId # ""
    /\ data.transactionId # 0
    /\ data.customerId # ""
    /\ data.orderId # 0
    /\ ~Less(data.amount, Zero)

\* TransactionHistoryModel.findOne({ transactionId })
FindTransaction(store, txn) == \E i \in 1..Len(store) : store[i].transactionId = txn

\* mutant: the insert is rejected whatever the store holds
SaveAccepted_Never(store, txn) == FALSE

\* transactionHistory.save(): the unique index on transactionId rejects a
\* second document with the same key
SaveAccepted(store, txn) == ~FindTransaction(store, txn)

\* channel.ack(msg) / channel.nack(msg, false, false): either way the broker
\* forgets the message
Settle(msg, how) ==
    Append(settled,
           IF Parses(msg)
           THEN [transactionId |-> msg.transactionId, amount |-> msg.amount,
                 valid |-> validateTransactionMessage(msg), how |-> how]
           ELSE [transactionId |-> 0, amount |-> Zero, valid |-> FALSE, how |-> how])

\* the consume callback without prefetch(1): a consumer is handed the next
\* message while it still holds an unacknowledged one
ProcessMessage_NoPrefetch(w, lookupOk) ==
    /\ queue # <<>>
    /\ queue' = Tail(queue)
    /\ LET msg == Head(queue) IN
       IF ~Parses(msg)
       THEN /\ settled' = Settle(msg, "nack")
            /\ UNCHANGED <<worker, audit>>
       ELSE IF ~validateTransactionMessage(msg)
       THEN /\ settled' = Settle(msg, "ack")
            /\ UNCHANGED <<worker, audit>>
       ELSE IF ~lookupOk
       THEN /\ settled' = Settle(msg, "nack")
            /\ UNCHANGED <<worker, audit>>
       ELSE IF FindTransaction(audit, msg.transactionId)
       THEN /\ settled' = Settle(msg, "ack")
            /\ UNCHANGED <<worker, audit>>
       ELSE /\ worker' = [worker EXCEPT ![w] = [pc |-> "save", msg |-> msg]]
            /\ UNCHANGED <<settled, audit>>
    /\ UNCHANGED <<products, orders, payments, saga, charge, delivered, api, patch>>

\* the consume callback overwriting the stored record of a known transactionId
ProcessMessage_Upsert(w, lookupOk) ==
    /\ worker[w].pc = "idle"
    /\ queue # <<>>
    /\ queue' = Tail(queue)
    /\ LET msg == Head(queue) IN
       IF ~Parses(msg)
       THEN /\ settled' = Settle(msg, "nack")
            /\ UNCHANGED <<worker, audit>>
       ELSE IF ~validateTransactionMessage(msg)
       THEN /\ settled' = Settle(msg, "ack")
            /\ UNCHANGED <<worker, audit>>
       ELSE IF ~lookupOk
       THEN /\ settled' = Settle(msg, "nack")
            /\ UNCHANGED <<worker, audit>>
       ELSE IF FindTransaction(audit, msg.transactionId)
       THEN /\ settled' = Settle(msg, "ack")
            /\ audit' = [i \in 1..Len(audit) |->
                            IF audit[i].transactionId = msg.transactionId
                            THEN [audit[i] EXCEPT !.customerId = msg.customerId,
                                      !.orderId = msg.orderId,
                                      !.productId = msg.productId,
                                      !.amount = msg.amount]
                            ELSE audit[i]]
            /\ UNCHANGED worker
       ELSE /\ worker' = [worker EXCEPT ![w] = [pc |-> "save", msg |-> msg]]
            /\ UNCHANGED <<settled, audit>>
    /\ UNCHANGED <<products, orders, payments, saga, charge, delivered, api, patch>>

\* consume callback up to the lookup: with prefetch(1) a consumer gets the next
\* message when it holds no unacknowledged one; the payload is parsed (a
\* throw lands in the catch block), the message is validated, then looked up
\* by transactionId
ProcessMessage(w, lookupOk) ==
    /\ worker[w].pc = "idle"
    /\ queue # <<>>
    /\ queue' = Tail(queue)
    /\ LET msg == Head(queue) IN
       IF ~Parses(msg)
       THEN /\ settled' = Settle(msg, "nack")
            /\ UNCHANGED <<worker, audit>>
       ELSE IF ~validateTransactionMessage(msg)
       THEN /\ settled' = Settle(msg, "ack")
            /\ UNCHANGED <<worker, audit>>
       ELSE IF ~lookupOk
       THEN /\ settled' = Settle(msg, "nack")
            /\ UNCHANGED <<worker, audit>>
       ELSE IF FindTransaction(audit, msg.transactionId)
       THEN /\ settled' = Settle(msg, "ack")
            /\ UNCHANGED <<worker, audit>>
       ELSE /\ worker' = [worker EXCEPT ![w] = [pc |-> "save", msg |-> msg]]
            /\ UNCHANGED <<settled, audit>>
    /\ UNCHANGED <<products, orders, payments, saga, charge, delivered, api, patch>>

\* mutant: the catch block acknowledges the message
SaveOutcome_AlwaysAck(saved) == "ack"

\* ack after a successful save; the catch block nacks without requeue
SaveOutcome(saved) == IF saved THEN "ack" ELSE "nack"

\* processMessage from the insert on: save the audit record and ack, or
\* nack without requeue when the save throws
SaveTransaction(w, saveOk) ==
    /\ worker[w].pc = "save"
    /\ LET msg == worker[w].msg IN
       IF saveOk /\ SaveAccepted(audit, msg.transactionId)
       THEN /\ audit' = Append(audit,
                   [transactionId |-> msg.transactionId, customerId |-> msg.customerId,
                    orderId |-> msg.orderId, productId |-> msg.productId,
                    amount |-> msg.amount, status |-> "completed"])
            /\ settled' = Settle(msg, SaveOutcome(TRUE))
       ELSE /\ settled' = Settle(msg, SaveOutcome(FALSE))
            /\ UNCHANGED audit
    /\ worker' = [worker EXCEPT ![w] = Idle]
    /\ UNCHANGED <<products, orders, payments, queue, saga, charge, delivered, api, patch>>

----------------------------------------------------------------------------
(* The order flow: sagas, the payment service and the order API.           *)
(* A status update or a cancel that is rejected (unknown order, value      *)
(* outside the enum, order not cancellable, failed save) changes no        *)
(* variable: these requests are the stuttering steps of the specification. *)

\* the statuses the order API is asked to write: the handlers tell pending
\* and confirmed from the rest and treat processing, shipped and delivered
\* alike, so shipped stands for the three
StatusInputs == {"pending", "confirmed", "shipped", "cancelled"}

Init ==
    /\ products = InitProducts
    /\ orders = <<>>
    /\ payments = <<>>
    /\ queue = <<>>
    /\ saga = [r \in SagaIds |-> NoSaga]
    /\ charge = [r \in SagaIds |-> NoCharge]
    /\ audit = <<>>
    /\ worker = [w \in WorkerIds |-> Idle]
    /\ settled = <<>>
    /\ delivered = 0
    /\ api = Unobserved
    /\ patch = [c \in ClientIds |-> NoPatch]

Next ==
    \/ \E r \in SagaIds, body \in Bodies : CreateOrder(r, body)
    \/ \E r \in SagaIds, fault \in Faults : ValidateCustomerStep(r, fault)
    \/ \E r \in SagaIds, fault \in Faults : ValidateProductStep(r, fault)
    \/ \E r \in SagaIds, saveOk \in BOOLEAN : SaveOrder(r, saveOk)
    \/ \E r \in SagaIds, fault \in Faults, saveOk \in BOOLEAN : SendPayment(r, fault, saveOk)
    \/ \E r \in SagaIds, saveOk \in BOOLEAN : PaymentReturn(r, saveOk)
    \/ \E r \in SagaIds, saveOk \in BOOLEAN : PaymentTimeout(r, saveOk)
    \/ \E r \in SagaIds, fault \in Faults : UpdateStockStep(r, fault)
    \/ \E r \in SagaIds, saveOk \in BOOLEAN : ProcessPaymentCreate(r, saveOk)
    \/ \E r \in SagaIds, isSuccess \in BOOLEAN, coin \in BOOLEAN, saveOk \in BOOLEAN :
           ProcessPaymentSettle(r, isSuccess, coin, saveOk)
    \/ \E r \in SagaIds, published \in BOOLEAN : ProcessPaymentPublish(r, published)
    \/ \E i \in 1..Len(orders), s \in StatusInputs :
           UpdateOrderStatus(orders[i].orderId, s, TRUE)
    \/ \E i \in 1..Len(orders) : CancelOrder(orders[i].orderId, TRUE)

Spec == Init /\ [][Next]_vars

----------------------------------------------------------------------------
(* The order API seen by one client that reads every answer: it places     *)
(* the good request (with or without an orderId field of its own) while    *)
(* every collaborator is up, and sends status updates and cancels for the  *)
(* orders that exist and for one that does not.                            *)

\* an orderId that no order has
AbsentOrderId == ClientOrderId + 1

OrderIdInputs == {orders[i].orderId : i \in 1..Len(orders)} \cup {AbsentOrderId}

\* req.body.status: the values of the enum and one outside it
StatusRequests == OrderStatus \cup {"refunded"}

InitOrders ==
    /\ products = InitProducts
    /\ orders = <<>>
    /\ payments = <<>>
    /\ queue = <<>>
    /\ saga = [r \in SagaIds |-> NoSaga]
    /\ charge = [r \in SagaIds |-> NoCharge]
    /\ audit = <<>>
    /\ worker = [w \in WorkerIds |-> Idle]
    /\ settled = <<>>
    /\ delivered = 0
    /\ api = NoAnswer
    /\ patch = [c \in ClientIds |-> NoPatch]

NextOrders ==
    \/ \E r \in SagaIds, body \in ApiBodies : CreateOrder(r, body)
    \/ \E r \in SagaIds : ValidateCustomerStep(r, "none")
    \/ \E r \in SagaIds : ValidateProductStep(r, "none")
    \/ \E r \in SagaIds : SaveOrder(r, TRUE)
    \/ \E r \in SagaIds : SendPayment(r, "none", TRUE)
    \/ \E r \in SagaIds : PaymentReturn(r, TRUE)
    \/ \E r \in SagaIds : UpdateStockStep(r, "none")
    \/ \E r \in SagaIds : ProcessPaymentCreate(r, TRUE)
    \/ \E r \in SagaIds, isSuccess \in BOOLEAN :
           ProcessPaymentSettle(r, isSuccess, TRUE, TRUE)
    \/ \E r \in SagaIds : ProcessPaymentPublish(r, TRUE)
    \/ \E orderId \in OrderIdInputs, s \in StatusRequests, saveOk \in BOOLEAN :
           UpdateOrderStatus(orderId, s, saveOk)
    \/ \E orderId \in OrderIdInputs, saveOk \in BOOLEAN : CancelOrder(orderId, saveOk)

SpecOrders == InitOrders /\ [][NextOrders]_vars

----------------------------------------------------------------------------
(* The audit flow: a broker that delivers messages at least once to the    *)
(* consumer instances                                                      *)

\* JSON messages on the wire: two transactions, a redelivery of the first
\* whose other fields differ, and messages with an empty productId, an empty
\* customerId, no orderId, no transactionId and a negative amount
AuditMessages ==
    { [transactionId |-> 1, customerId |-> "CUST_1", orderId |-> 1,
       productId |-> "PROD_1", amount |-> Amt(50000, 0)],
      [transactionId |-> 1, customerId |-> "CUST_1", orderId |-> 1,
       productId |-> "PROD_1", amount |-> Amt(0, 500)],
      [transactionId |-> 2, customerId |-> "CUST_1", orderId |-> 2,
       productId |-> "PROD_1", amount |-> Amt(50000, 0)],
      [transactionId |-> 2, customerId |-> "CUST_1", orderId |-> 2,
       productId |-> "", amount |-> Amt(50000, 0)],
      [transactionId |-> 2, customerId |-> "", orderId |-> 2,
       productId |-> "PROD_1", amount |-> Amt(50000, 0)],
      [transactionId |-> 2, customerId |-> "CUST_1", orderId |-> 0,
       productId |-> "PROD_1", amount |-> Amt(50000, 0)],
      [transactionId |-> 0, customerId |-> "CUST_1", orderId |-> 2,
       productId |-> "PROD_1", amount |-> Amt(50000, 0)],
      [transactionId |-> 2, customerId |-> "CUST_1", orderId |-> 2,
       productId |-> "PROD_1", amount |-> Amt(-1, 0)] }

\* what the broker may hold: the JSON messages and a payload that is not JSON
WireMessages == AuditMessages \cup {NotJson}

\* the broker puts a message on the queue (a first delivery or a redelivery)
Deliver(msg) ==
    /\ delivered < MaxDeliveries
    /\ delivered' = delivered + 1
    /\ queue' = Append(queue, msg)
    /\ UNCHANGED <<products, orders, payments, saga, charge, audit, worker, settled, api, patch>>

NextAudit ==
    \/ \E msg \in WireMessages : Deliver(msg)
    \/ \E w \in WorkerIds, lookupOk \in BOOLEAN : ProcessMessage(w, lookupOk)
    \/ \E w \in WorkerIds, saveOk \in BOOLEAN : SaveTransaction(w, saveOk)

SpecAudit == Init /\ [][NextAudit]_vars

----------------------------------------------------------------------------
(* Properties *)

Done(r) == saga[r].pc = "done"

OrderOf(r) == orders[saga[r].orderIdx]

HasPayment(orderId, status) ==
    \E i \in 1..Len(payments) :
        payments[i].orderId = orderId /\ payments[i].status = status

\* no transport fault and no rejected save on the way of request r
FaultFree(r) ==
    /\ \A k \in 1..Len(saga[r].calls) : saga[r].calls[k].fault = "none"
    /\ saga[r].response.status # 500
    /\ charge[r].http.status # 500

ActiveCustomer(cid) == cid = "CUST_1"

\* C1: every order whose orderStatus is confirmed has a Payment with status
\* completed for its orderId.
C1_ConfirmedHasCompletedPayment ==
    \A i \in 1..Len(orders) :
        orders[i].orderStatus = "confirmed" => HasPayment(orders[i].orderId, "completed")

\* C2: when createOrder itself cancelled the order because the payment step
\* reported a failure, a Payment with status failed exists for the order.
C2_SagaCancelHasFailedPayment ==
    \A r \in SagaIds :
        ( /\ Done(r)
          /\ saga[r].orderIdx # 0
          /\ saga[r].response.message = "Payment processing failed" )
        => HasPayment(OrderOf(r).orderId, "failed")

TxnIds == {m.transactionId : m \in AuditMessages}

CountTxn(t) == Cardinality({i \in 1..Len(audit) : audit[i].transactionId = t})

\* the valid messages with transactionId t that were settled with `how`
SettledAs(t, how) ==
    {k \in 1..Len(settled) :
        settled[k].transactionId = t /\ settled[k].valid /\ settled[k].how \in how}

\* C3 as stated: once a valid message with a transactionId has been
\* processed, the audit store holds exactly one record with that id.
C3_ExactlyOneRecordPerTransaction ==
    \A t \in TxnIds : SettledAs(t, {"ack", "nack"}) # {} => CountTxn(t) = 1

\* C3 amended: the audit store never holds two records with one
\* transactionId, and it holds exactly one once a valid message with that id
\* has been acknowledged.
C3_AtMostOneRecordAndOneOnceAcked ==
    \A t \in TxnIds :
        /\ CountTxn(t) <= 1
        /\ SettledAs(t, {"ack"}) # {} => CountTxn(t) = 1

\* a transactionId delivered to both consumers at once and delivered again
\* later: one insert, one duplicate-key rejection, one acknowledged no-op
C3_Witness ==
    /\ Cardinality(SettledAs(1, {"ack"})) >= 2
    /\ SettledAs(1, {"nack"}) # {}
    /\ CountTxn(1) = 1

\* C4: when createOrder answers for an order it has persisted, the order is
\* confirmed or cancelled.
C4_TerminalStatusAtReturn ==
    [][\A r \in SagaIds :
          (saga[r].pc # "done" /\ saga'[r].pc = "done" /\ saga'[r].orderIdx # 0)
          => orders'[saga'[r].orderIdx].orderStatus \in {"confirmed", "cancelled"}]_vars

\* C5: a request with amount <= 0 is answered 400 at intake: no collaborator
\* call, no charge, no order; no order or payment ever carries such an amount.
C5_NonPositiveAmountRejected ==
    /\ \A r \in SagaIds :
          (saga[r].pc # "idle" /\ Leq(saga[r].req.amount, Zero))
          => /\ Done(r)
             /\ saga[r].response.status = 400
             /\ ~saga[r].response.success
             /\ saga[r].calls = <<>>
             /\ saga[r].orderIdx = 0
             /\ charge[r].pc = "none"
    /\ \A i \in 1..Len(orders) : Less(Zero, orders[i].amount)
    /\ \A i \in 1..Len(payments) : Less(Zero, payments[i].amount)

C5_Witness ==
    \E r \in SagaIds :
        Done(r) /\ Less(saga[r].req.amount, Zero) /\ saga[r].response.status = 400

\* C6: without any transport or persistence fault, a request that passed
\* validation with amount >= 100000000 ends with the charge rejected for
\* exceeding the limit, the order cancelled and success = false.
C6_AtCeilingRejected ==
    \A r \in SagaIds :
        ( /\ Done(r)
          /\ saga[r].orderIdx # 0
          /\ FaultFree(r)
          /\ Leq(Amt(Ceiling, 0), saga[r].req.amount) )
        => /\ ~saga[r].response.success
           /\ charge[r].http.error = "Transaction amount exceeds limit"
           /\ HasPayment(OrderOf(r).orderId, "failed")

\* C7: the step that receives a failed payment result saves the order as
\* cancelled and answers with the payment's status code, success = false,
\* without going on to the stock update.
C7_PaymentFailureCancels ==
    [][\A r \in SagaIds :
          ( /\ saga[r].paymentResult = NoResult
            /\ saga'[r].paymentResult # NoResult
            /\ ~saga'[r].paymentResult.success )
          => /\ orders'[saga[r].orderIdx].orderStatus = "cancelled"
             /\ saga'[r].pc = "done"
             /\ saga'[r].response.status = saga'[r].paymentResult.statusCode
             /\ ~saga'[r].response.success]_vars

\* C8: when the simulator declined the charge and createOrder received that
\* answer, the response of createOrder carries the simulator's reason.
C8_DeclineReasonReachesCaller ==
    \A r \in SagaIds :
        ( /\ Done(r)
          /\ saga[r].paymentResult.statusCode = 400
          /\ saga[r].response.status = 400
          /\ charge[r].http.message = "Payment processing failed" )
        => charge[r].http.error \in {saga[r].response.message, saga[r].response.error}

\* C9: the step that gets a failed stock update leaves the order store alone
\* and answers 201, success, with the confirmed order and no error.
C9_StockFailureStillSuccess ==
    [][\A r \in SagaIds :
          ( /\ saga[r].pc = "updateStock"
            /\ saga'[r].pc = "done"
            /\ ~saga'[r].calls[Len(saga'[r].calls)].success )
          => /\ orders' = orders
             /\ saga'[r].response.status = 201
             /\ saga'[r].response.success
             /\ saga'[r].response.error = Undefined
             /\ saga'[r].response.data.orderStatus = "confirmed"
             /\ saga'[r].response.data.orderId = OrderOf(r).orderId
             /\ saga'[r].response.data.amount = saga[r].req.amount]_vars

C9_Witness ==
    \E r \in SagaIds :
        /\ Done(r)
        /\ saga[r].calls # <<>>
        /\ saga[r].calls[Len(saga[r].calls)].op = "stock"
        /\ ~saga[r].calls[Len(saga[r].calls)].success
        /\ saga[r].response.status = 201
        /\ OrderOf(r).orderStatus = "confirmed"

\* C10: a request whose customer is absent or soft-deleted, or whose customer
\* lookup fails, ends after that one call: failure response, no order, no
\* product lookup, no charge, no stock update; 404 when the lookup itself
\* worked.
C10_CustomerFailureEndsSaga ==
    \A r \in SagaIds :
        ( /\ saga[r].calls # <<>>
          /\ \/ ~ActiveCustomer(saga[r].req.customerId)
             \/ saga[r].calls[1].fault # "none" )
        => /\ Done(r)
           /\ Len(saga[r].calls) = 1
           /\ saga[r].calls[1].op = "customer"
           /\ ~saga[r].response.success
           /\ saga[r].response.message = "Customer validation failed"
           /\ saga[r].orderIdx = 0
           /\ charge[r].pc = "none"
           /\ \A i \in 1..Len(orders) :
                  ActiveCustomer(orders[i].customerId)
           /\ saga[r].calls[1].fault = "none" => saga[r].response.status = 404

C10_Witness ==
    \E r \in SagaIds :
        /\ Done(r)
        /\ saga[r].req.customerId = "INVALID"
        /\ saga[r].response.status = 404
        /\ orders = <<>>

\* the product lookup of request r: its second collaborator call
ProductCall(r) == saga[r].calls[2]

\* C11: a request whose product validation fails ends after that call with a
\* failure response: no order, no charge, no stock update; a product that is
\* sold out is rejected with 400 (insufficient stock) and an absent product
\* with 404.
C11_ProductFailureEndsSaga ==
    \A r \in SagaIds :
        Len(saga[r].calls) >= 2
        => /\ ProductCall(r).op = "product"
           /\ ~ProductCall(r).success
              => /\ Done(r)
                 /\ Len(saga[r].calls) = 2
                 /\ ~saga[r].response.success
                 /\ saga[r].response.message = "Product validation failed"
                 /\ saga[r].orderIdx = 0
                 /\ charge[r].pc = "none"
           /\ (ProductCall(r).fault = "none" /\ saga[r].req.productId = "PROD_3")
              => /\ ~ProductCall(r).success
                 /\ saga[r].response.status = 400
                 /\ saga[r].response.error =
                        "Product not available or insufficient stock"
           /\ (ProductCall(r).fault = "none" /\ saga[r].req.productId = "INVALID")
              => /\ ~ProductCall(r).success
                 /\ saga[r].response.status = 404
           /\ \A i \in 1..Len(orders) : orders[i].productId = "PROD_1"

C11_Witness ==
    \E r \in SagaIds :
        /\ Done(r)
        /\ saga[r].req.productId = "PROD_3"
        /\ Len(saga[r].calls) = 2
        /\ saga[r].response.status = 400
        /\ orders = <<>>

\* C12: a request for a product that exists but is soft-deleted is rejected
\* like one for a product without stock: 400, insufficient stock.
C12_InactiveIsInsufficientStock ==
    \A r \in SagaIds :
        ( /\ Len(saga[r].calls) >= 2
          /\ ProductCall(r).fault = "none"
          /\ saga[r].req.productId = "PROD_2" )
        => /\ saga[r].response.status = 400
           /\ saga[r].response.error = "Product not available or insufficient stock"

\* the orders with a given orderId
WithOrderId(orderId) == {i \in 1..Len(orders) : orders[i].orderId = orderId}

\* a step of the order API that answered the request kept in api'
ApiStep(op) == saga' = saga /\ charge' = charge /\ api'.op = op

\* C13: a cancel of an order that is pending or confirmed answers 200 and
\* writes cancelled (500 and no write if the store rejects the save); from
\* any other status it answers 400 and writes nothing; for an orderId that
\* no order has it answers 404.
C13_CancelOnlyFromPendingOrConfirmed ==
    [][ApiStep("cancel") =>
          IF WithOrderId(api'.orderId) = {}
          THEN api'.code = 404 /\ orders' = orders
          ELSE \A i \in WithOrderId(api'.orderId) :
                 IF orders[i].orderStatus \in {"pending", "confirmed"}
                 THEN \/ /\ api'.code = 200
                         /\ orders' = [orders EXCEPT ![i].orderStatus = "cancelled"]
                      \/ /\ api'.code = 500
                         /\ orders' = orders
                 ELSE api'.code = 400 /\ orders' = orders]_vars

\* a cancel was refused for an order that had moved on
C13_Witness ==
    /\ api.op = "cancel"
    /\ api.code = 400
    /\ \E i \in WithOrderId(api.orderId) :
           orders[i].orderStatus \in {"processing", "shipped", "delivered"}

\* C14: no step changes an order's status to cancelled from a status other
\* than pending or confirmed.
C14_CancelledOnlyFromPendingOrConfirmed ==
    [][\A i \in 1..Len(orders) :
          (orders[i].orderStatus # "cancelled" /\ orders'[i].orderStatus = "cancelled")
          => orders[i].orderStatus \in {"pending", "confirmed"}]_vars

\* C15: no step changes the status of a cancelled order.
C15_CancelledIsTerminal ==
    [][\A i \in 1..Len(orders) :
          orders[i].orderStatus = "cancelled" => orders'[i].orderStatus = "cancelled"]_vars

\* C16: a status update with a value of the enum on an existing order answers
\* 200 and writes that value whatever the order's status was (500 and no
\* write if the store rejects the save); a value outside the enum answers 400
\* and an orderId that no order has 404, both without a write.
C16_UpdateStatusOverwrites ==
    [][ApiStep("updateStatus") =>
          IF api'.status \notin {"pending", "confirmed", "processing", "shipped",
                                 "delivered", "cancelled"}
          THEN api'.code = 400 /\ orders' = orders
          ELSE IF WithOrderId(api'.orderId) = {}
          THEN api'.code = 404 /\ orders' = orders
          ELSE \A i \in WithOrderId(api'.orderId) :
                 \/ /\ api'.code = 200
                    /\ orders' = [orders EXCEPT ![i].orderStatus = api'.status]
                 \/ /\ api'.code = 500
                    /\ orders' = orders]_vars

\* an order that createOrder had confirmed was set back to pending
C16_Witness ==
    /\ api.op = "updateStatus"
    /\ api.code = 200
    /\ api.status = "pending"
    /\ \E r \in SagaIds :
           /\ Done(r)
           /\ saga[r].response.status = 201
           /\ OrderOf(r).orderId = api.orderId
           /\ OrderOf(r).orderStatus = "pending"

\* C17: a timeout of the customer lookup, the product lookup or the payment
\* charge ends the request with 503, and no collaborator operation is called
\* twice by one request.
C17_TimeoutIsServiceUnavailable ==
    \A r \in SagaIds :
        /\ \A k \in 1..Len(saga[r].calls) :
              ( /\ saga[r].calls[k].fault = "timeout"
                /\ saga[r].calls[k].op \in {"customer", "product", "payment"} )
              => /\ Done(r)
                 /\ Len(saga[r].calls) = k
                 /\ ~saga[r].response.success
                 /\ saga[r].response.status = 503
        /\ \A j, k \in 1..Len(saga[r].calls) :
              saga[r].calls[j].op = saga[r].calls[k].op => j = k

\* C18: the orderId of a stored order is never the orderId field of the
\* request that created it.
C18_OrderIdNotFromRequest ==
    \A r \in SagaIds :
        (saga[r].orderIdx # 0 /\ saga[r].req.orderId # 0)
        => OrderOf(r).orderId # saga[r].req.orderId

\* request r has called (or is calling) the collaborator operation op
Called(r, op) == \E k \in 1..Len(saga[r].calls) : saga[r].calls[k].op = op

Charged(r) == charge[r].pc # "none" \/ Called(r, "payment")

\* C19: a request charges the payment only after its customer and product
\* validations succeeded and its order was written as pending, and updates
\* the stock only after the charge succeeded and the order was written as
\* confirmed.
C19_StepsInOrder ==
    /\ [](\A r \in SagaIds :
            /\ Charged(r)
               => /\ Len(saga[r].calls) >= 2
                  /\ saga[r].calls[1].op = "customer" /\ saga[r].calls[1].success
                  /\ saga[r].calls[2].op = "product" /\ saga[r].calls[2].success
                  /\ saga[r].orderIdx \in 1..Len(orders)
            /\ Called(r, "stock")
               => /\ Len(saga[r].calls) = 4
                  /\ saga[r].calls[3].op = "payment" /\ saga[r].calls[3].success
                  /\ saga[r].calls[4].op = "stock")
    /\ [][\A r \in SagaIds :
            /\ (saga[r].orderIdx = 0 /\ saga'[r].orderIdx # 0)
               => /\ orders'[saga'[r].orderIdx].orderStatus = "pending"
                  /\ ~Charged(r)'
            /\ (saga[r].pc # "updateStock" /\ saga'[r].pc = "updateStock")
               => /\ orders'[saga'[r].orderIdx].orderStatus = "confirmed"
                  /\ ~Called(r, "stock")'
            /\ (~Called(r, "stock") /\ Called(r, "stock")')
               => saga[r].pc = "updateStock"]_vars

C19_Witness ==
    \E r \in SagaIds :
        /\ Done(r)
        /\ Len(saga[r].calls) = 4
        /\ saga[r].calls[4].op = "stock"
        /\ saga[r].calls[4].success
        /\ saga[r].response.status = 201

\* C20: the step of a request whose stock update succeeds answers 201 with
\* the order confirmed and the requested amount, and takes exactly one unit
\* off the stock of the ordered product and nothing off any other.
C20_SuccessDecrementsStockByOne ==
    [][\A r \in SagaIds :
          ( /\ saga[r].pc = "updateStock"
            /\ saga'[r].pc = "done"
            /\ saga'[r].calls[Len(saga'[r].calls)].success )
          => /\ saga'[r].response.status = 201
             /\ saga'[r].response.success
             /\ saga'[r].response.data.orderStatus = "confirmed"
             /\ saga'[r].response.data.amount = saga[r].req.amount
             /\ saga'[r].response.data.orderId = OrderOf(r).orderId
             /\ products' = [products EXCEPT
                    ![saga[r].req.productId].stock = products[saga[r].req.productId].stock - 1]
             /\ products'[saga[r].req.productId].stock >= 0]_vars

\* Scenario A: the good request on a product with InitStock units
C20_Witness ==
    \E r \in SagaIds :
        /\ Done(r)
        /\ saga[r].req = GoodBody
        /\ saga[r].response.status = 201
        /\ saga[r].response.data.orderStatus = "confirmed"
        /\ saga[r].calls[Len(saga[r].calls)].success
        /\ products["PROD_1"].stock = InitStock - 1

----------------------------------------------------------------------------
(* payment-service: the Payment document and the publish *)

Decided(status) == status \in {"completed", "failed"}

\* the Payment document of charge r, once it is saved
PaymentOf(r) == payments[charge[r].paymentIdx]

\* C21: a Payment document is first saved in status pending, the outcome of a
\* charge is decided while its document is pending, and a document changes
\* status at most once, from pending to completed or failed: a completed or
\* failed document never changes again
C21_PendingThenOneOutcome ==
    [][/\ Len(payments') >= Len(payments)
       /\ \A i \in 1..Len(payments') :
            IF i > Len(payments)
            THEN payments'[i].status = "pending"
            ELSE /\ Decided(payments[i].status) => payments'[i] = payments[i]
                 /\ payments'[i].status # payments[i].status
                        => payments[i].status = "pending" /\ Decided(payments'[i].status)
       /\ \A r \in SagaIds :
            /\ charge'[r].pc = "pending" => payments'[charge'[r].paymentIdx].status = "pending"
            /\ charge[r].pc = "pending" /\ charge'[r].pc # "pending"
                   => PaymentOf(r).status = "pending"]_vars

\* a charge was declined: its document went from pending to failed and the
\* answer was sent
C21_Witness ==
    \E r \in SagaIds :
        /\ charge[r].pc = "responded" /\ charge[r].paymentIdx > 0
        /\ PaymentOf(r).status = "failed"
        /\ charge[r].http.status = 400

\* C22: the Payment document is completed before the publish is attempted,
\* and whatever the publish returns the document stays completed and the
\* charge is answered 201 with its paymentId and transactionId
C22_FailedPublishKeepsOutcome ==
    [][/\ queue' # queue
            => \E r \in SagaIds : charge[r].pc = "publish" /\ charge'[r].pc = "responded"
       /\ \A r \in SagaIds : charge[r].pc = "publish" =>
            /\ PaymentOf(r).status = "completed"
            /\ charge'[r].pc = "responded" =>
                 /\ payments' = payments
                 /\ charge'[r].http.status = 201 /\ charge'[r].http.success
                 /\ charge'[r].http.data = PaymentResponse(PaymentOf(r))
                 /\ PaymentOf(r).transactionId # 0]_vars

\* a charge was answered 201 although nothing was put on the queue
C22_Witness ==
    \E r \in SagaIds :
        /\ charge[r].pc = "responded" /\ charge[r].http.status = 201
        /\ PaymentOf(r).status = "completed"
        /\ queue = <<>>

\* the number of messages on the queue that bear transactionId t
Published(t) == Cardinality({i \in 1..Len(queue) : queue[i].transactionId = t})

\* the charge r has been answered by the payment service after its document was saved
Answered(r) == charge[r].pc = "responded" /\ charge[r].paymentIdx > 0

----------------------------------------------------------------------------
(* transaction-worker: what the consumer does with a delivery *)

\* the consumer takes the head of the queue in this step
Takes == queue # <<>> /\ queue' = Tail(queue)

\* the last answer given to the broker
LastSettled(log) == log[Len(log)]

\* the messages handed to the consumers so far
Taken == delivered - Len(queue)

\* the consumers that hold a message they have not answered
InProcessing == {w \in WorkerIds : worker[w].pc = "save"}

C25_UnexpectedErrorNacksWithoutRequeue ==
    [][/\ \A w \in WorkerIds :
            (worker[w].pc = "save" /\ worker'[w] # worker[w] /\ audit' = audit)
            => /\ worker'[w] = Idle
               /\ queue' = queue
               /\ Len(settled') = Len(settled) + 1
               /\ LastSettled(settled').transactionId = worker[w].msg.transactionId
               /\ LastSettled(settled').how = "nack"
       /\ (/\ Takes
           /\ worker' = worker
           /\ \/ ~Parses(Head(queue))
              \/ /\ validateTransactionMessage(Head(queue))
                 /\ ~FindTransaction(audit, Head(queue).transactionId))
          => /\ audit' = audit
             /\ Len(settled') = Len(settled) + 1
             /\ LastSettled(settled').how = "nack"]_vars

\* a payload that is not JSON and a valid message whose processing threw were
\* both rejected, no record was written, and a later message was saved
C25_Witness ==
    /\ \E k \in 1..Len(settled) :
            ~settled[k].valid /\ settled[k].how = "nack"
    /\ SettledAs(2, {"nack"}) # {}
    /\ CountTxn(2) = 0
    /\ CountTxn(1) = 1

\* C26: every message handed to a consumer is either answered or held by one
\* consumer that holds nothing else; a consumer is handed a message only
\* when it is idle, and the message handed over is the head of the queue
C26_OneAtATimeInQueueOrder ==
    /\ [](Taken = Len(settled) + Cardinality(InProcessing))
    /\ [][/\ Len(queue') < Len(queue) => queue' = Tail(queue)
          /\ \A w \in WorkerIds :
                (worker'[w] # worker[w] /\ worker'[w].pc = "save")
                => /\ worker[w] = Idle
                   /\ Takes
                   /\ worker'[w].msg = Head(queue)]_vars

\* a consumer holds a message, an earlier one has been answered and the next
\* one waits on the queue for an idle consumer
C26_Witness ==
    /\ \E w \in WorkerIds : worker[w].pc = "save"
    /\ settled # <<>>
    /\ queue # <<>>

\* C27: an audit record is never changed or removed; a valid message whose
\* transactionId already has a record is answered (acknowledged, or rejected
\* when the lookup throws) without any write to the audit store and without
\* reaching the insert, whatever its other fields are
C27_AuditRecordNeverChanged ==
    [][/\ Len(audit') >= Len(audit)
       /\ \A i \in 1..Len(audit) : audit'[i] = audit[i]
       /\ (/\ Takes
           /\ Parses(Head(queue))
           /\ validateTransactionMessage(Head(queue))
           /\ FindTransaction(audit, Head(queue).transactionId))
          => /\ audit' = audit
             /\ worker' = worker
             /\ Len(settled') = Len(settled) + 1
             /\ LastSettled(settled').how \in {"ack", "nack"}]_vars

\* the message of transaction 1 with another amount was acknowledged and the
\* record stored for transaction 1 still has the first amount
C27_Witness ==
    /\ \E i \in 1..Len(audit) :
            audit[i].transactionId = 1 /\ audit[i].amount = Amt(50000, 0)
    /\ \E k \in 1..Len(settled) :
            /\ settled[k].transactionId = 1 /\ settled[k].amount = Amt(0, 500)
            /\ settled[k].how = "ack"
    /\ \A k \in 1..Len(settled) : settled[k].how = "ack"

----------------------------------------------------------------------------
(* The stock flow: clients of PATCH /api/products/:productId/stock.  Here  *)
(* api holds the last request of a client and the status it was answered.  *)

Quantities == 0..MaxStock

Operations == {"decrease", "increase", "set"}

StockAnswer(operation, productId, quantity, code) ==
    [op |-> operation, productId |-> productId, quantity |-> quantity, code |-> code]

NoStockAnswer == StockAnswer("none", "", 0, 0)

\* updateProductStock of the product service; the stock a client may build
\* up is capped at MaxStock
UpdateProductStock(pid, quantity, operation, fault) ==
    /\ (operation = "increase" /\ FindActiveProduct(products, pid))
            => products[pid].stock + quantity <= MaxStock
    /\ products' = StockUpdateStore(products, pid, quantity, operation, fault)
    /\ api' = StockAnswer(operation, pid, quantity,
                          StockUpdateCode(products, pid, quantity, operation, fault))
    /\ UNCHANGED <<orders, payments, queue, saga, charge, audit, worker, settled, delivered, patch>>

InitStockFlow ==
    /\ products = InitProducts
    /\ orders = <<>>
    /\ payments = <<>>
    /\ queue = <<>>
    /\ saga = [r \in SagaIds |-> NoSaga]
    /\ charge = [r \in SagaIds |-> NoCharge]
    /\ audit = <<>>
    /\ worker = [w \in WorkerIds |-> Idle]
    /\ settled = <<>>
    /\ delivered = 0
    /\ api = NoStockAnswer
    /\ patch = [c \in ClientIds |-> NoPatch]

NextStock ==
    \E pid \in ProductIds, quantity \in Quantities, operation \in Operations,
       fault \in {"none", "error500"} :
        UpdateProductStock(pid, quantity, operation, fault)

SpecStock == InitStockFlow /\ [][NextStock]_vars

\* C28: a decrease by q > 0 of an active product is answered 400 and leaves
\* every stock unchanged when the stock is less than q, and is answered 200
\* and lowers that product's stock by exactly q when the stock is at least q
\* (a request whose database call throws is answered 500 and writes nothing)
C28_DecrementChecksStock ==
    [][(/\ api'.op = "decrease"
        /\ api'.quantity > 0
        /\ FindActiveProduct(products, api'.productId))
       => LET pid == api'.productId
              q == api'.quantity
          IN  IF api'.code = 500
              THEN products' = products
              ELSE IF products[pid].stock < q
              THEN api'.code = 400 /\ products' = products
              ELSE /\ api'.code = 200
                   /\ products' = [products EXCEPT ![pid].stock = @ - q]]_vars

\* a decrease by 2 was refused on the stock of 1 that an earlier increase
\* had built up
C28_Witness ==
    /\ api = StockAnswer("decrease", "PROD_3", 2, 400)
    /\ products["PROD_3"].stock = 1

----------------------------------------------------------------------------
(* order-service and payment-service: the charge of an order *)

\* the Payment documents that bear orderId
PaymentsOf(orderId) == {j \in 1..Len(payments) : payments[j].orderId = orderId}

\* the calls of processPayment made by request r
PaymentCalls(r) == {k \in 1..Len(saga[r].calls) : saga[r].calls[k].op = "payment"}

\* C29: every Payment document carries the orderId, customerId, productId
\* and amount of an order that createOrder persisted, a request calls
\* processPayment at most once, and an order has at most one Payment document
C29_PaymentCarriesOrderOneCharge ==
    /\ \A j \in 1..Len(payments) : \E i \in 1..Len(orders) :
            /\ orders[i].orderId = payments[j].orderId
            /\ orders[i].customerId = payments[j].customerId
            /\ orders[i].productId = payments[j].productId
            /\ orders[i].amount = payments[j].amount
    /\ \A r \in SagaIds : Cardinality(PaymentCalls(r)) <= 1
    /\ \A i \in 1..Len(orders) : Cardinality(PaymentsOf(orders[i].orderId)) <= 1

\* a request finished with its order persisted, one payment call made and
\* one Payment document stored for the order
C29_Witness ==
    \E r \in SagaIds :
        /\ Done(r) /\ saga[r].orderIdx > 0
        /\ Cardinality(PaymentCalls(r)) = 1
        /\ Cardinality(PaymentsOf(OrderOf(r).orderId)) = 1

\* C30: a request that has written its order as pending and has not yet
\* written the outcome of the payment does not change a status that cancel or
\* updateStatus has written to the order in the meantime
C30_SagaKeepsConcurrentStatus ==
    [][\A r \in SagaIds :
         (/\ saga[r].pc \in {"processPayment", "awaitPayment"}
          /\ saga'[r] # saga[r]
          /\ OrderOf(r).orderStatus # "pending")
         => orders'[saga[r].orderIdx].orderStatus = OrderOf(r).orderStatus]_vars

----------------------------------------------------------------------------
(* The concurrent stock flow: requests to PATCH /:productId/stock whose    *)
(* handlers interleave at their awaits.  A handler reads the product with  *)
(* findOne, checks and changes the stock of the document in memory, and    *)
(* writes that stock back with product.save().                             *)

\* updateProductStock up to the save: the checks are made on the document
\* findOne returned and the new stock is set on that document
ReadStock(c, pid, quantity, operation, fault) ==
    /\ patch[c].pc = "idle"
    /\ (operation = "increase" /\ FindActiveProduct(products, pid))
            => products[pid].stock + quantity <= MaxStock
    /\ LET code == StockUpdateCode(products, pid, quantity, operation, fault)
           request == [NoPatch EXCEPT !.productId = pid, !.quantity = quantity,
                                      !.operation = operation]
       IN  patch' = [patch EXCEPT ![c] =
               IF code # 200
               THEN [NoPatch EXCEPT !.pc = "done", !.code = code]
               ELSE [request EXCEPT !.pc = "save",
                        !.stock = StockUpdateStore(products, pid, quantity,
                                                   operation, fault)[pid].stock]]
    /\ UNCHANGED <<products, orders, payments, queue, saga, charge, audit, worker,
                   settled, delivered, api>>

\* updateProductStock from product.save() on: the stock of the document in
\* memory replaces the stored one; a save that throws is answered 500
SaveStock(c, saveOk) ==
    /\ patch[c].pc = "save"
    /\ IF saveOk
       THEN /\ products' = [products EXCEPT ![patch[c].productId].stock = patch[c].stock]
            /\ patch' = [patch EXCEPT ![c].pc = "done", ![c].code = 200,
                                       ![c].stock = 0]
       ELSE /\ patch' = [patch EXCEPT ![c] = [NoPatch EXCEPT !.pc = "done",
                                                            !.code = 500]]
            /\ UNCHANGED products
    /\ UNCHANGED <<orders, payments, queue, saga, charge, audit, worker, settled,
                   delivered, api>>

NextStockRace ==
    \/ \E c \in ClientIds, pid \in ProductIds, quantity \in Quantities,
          operation \in Operations, fault \in {"none", "error500"} :
            ReadStock(c, pid, quantity, operation, fault)
    \/ \E c \in ClientIds, saveOk \in BOOLEAN : SaveStock(c, saveOk)

SpecStockRace == InitStockFlow /\ [][NextStockRace]_vars

\* the requests that were answered 200 for `operation` on product pid
Succeeded(pid, operation) ==
    {c \in ClientIds : /\ patch[c].pc = "done" /\ patch[c].code = 200
                       /\ patch[c].productId = pid
                       /\ patch[c].operation = operation}

RECURSIVE SumQuantity(_)
SumQuantity(clients) ==
    IF clients = {} THEN 0
    ELSE LET c == CHOOSE x \in clients : TRUE
         IN  patch[c].quantity + SumQuantity(clients \ {c})

\* no request on product pid is between its read and its save
Quiet(pid) ==
    \A c \in ClientIds : ~(patch[c].pc = "save" /\ patch[c].productId = pid)

\* C31: when no request is in flight on a product that only decrements were
\* applied to, its stock is its initial stock minus the quantities of the
\* decrements that were answered 200
C31_NoLostDecrement ==
    \A pid \in DOMAIN products :
        (Quiet(pid) /\ Succeeded(pid, "increase") = {})
        => products[pid].stock =
               InitProducts[pid].stock - SumQuantity(Succeeded(pid, "decrease"))

\* C32: the stored stock of a product is never negative, whatever requests
\* to the stock endpoint interleave
C32_StockNeverNegative ==
    \A pid \in DOMAIN products : products[pid].stock >= 0

\* two decrements of one product interleaved, both were answered 200 and the
\* stock is at zero
C32_Witness ==
    \E c, d \in ClientIds :
        /\ c # d
        /\ {c, d} \subseteq Succeeded("PROD_1", "decrease")
        /\ products["PROD_1"].stock = 0

----------------------------------------------------------------------------
(* The pipeline: orders are submitted and cancelled, the payment service   *)
(* charges and publishes, and the consumers ingest what was published.     *)
(* The queue is fed by the payment service only.                           *)

NextPipeline ==
    \/ \E r \in SagaIds, body \in ApiBodies : CreateOrder(r, body)
    \/ \E r \in SagaIds : ValidateCustomerStep(r, "none")
    \/ \E r \in SagaIds : ValidateProductStep(r, "none")
    \/ \E r \in SagaIds : SaveOrder(r, TRUE)
    \/ \E r \in SagaIds : SendPayment(r, "none", TRUE)
    \/ \E r \in SagaIds : PaymentReturn(r, TRUE)
    \/ \E r \in SagaIds : PaymentTimeout(r, TRUE)
    \/ \E r \in SagaIds : UpdateStockStep(r, "none")
    \/ \E r \in SagaIds : ProcessPaymentCreate(r, TRUE)
    \/ \E r \in SagaIds, isSuccess \in BOOLEAN :
           ProcessPaymentSettle(r, isSuccess, TRUE, TRUE)
    \/ \E r \in SagaIds, published \in BOOLEAN : ProcessPaymentPublish(r, published)
    \/ \E i \in 1..Len(orders) : CancelOrder(orders[i].orderId, TRUE)
    \/ \E w \in WorkerIds, lookupOk \in BOOLEAN : ProcessMessage(w, lookupOk)
    \/ \E w \in WorkerIds, saveOk \in BOOLEAN : SaveTransaction(w, saveOk)

SpecPipeline == InitOrders /\ [][NextPipeline]_vars

\* C33: each audit record bears the transactionId of a completed Payment
\* that has the same orderId, customerId, productId and amount
C33_AuditRecordHasCompletedPayment ==
    \A i \in 1..Len(audit) : \E j \in 1..Len(payments) :
        /\ payments[j].transactionId = audit[i].transactionId
        /\ payments[j].status = "completed"
        /\ payments[j].orderId = audit[i].orderId
        /\ payments[j].customerId = audit[i].customerId
        /\ payments[j].productId = audit[i].productId
        /\ payments[j].amount = audit[i].amount

\* a message published by the payment service was ingested
C33_Witness ==
    /\ audit # <<>>
    /\ \E k \in 1..Len(settled) : settled[k].valid /\ settled[k].how = "ack"
    /\ queue = <<>>

\* C34: a step of cancel that changes an order sets the status of one
\* pending or confirmed order to cancelled and changes nothing else: the
\* Payment documents, the stock, the audit records and the queue stay as
\* they are
C34_CancelChangesOnlyStatus ==
    [][(saga' = saga /\ orders' # orders)
       => /\ \E i \in 1..Len(orders) :
                /\ orders[i].orderStatus \in {"pending", "confirmed"}
                /\ orders' = [orders EXCEPT ![i].orderStatus = "cancelled"]
          /\ payments' = payments
          /\ products' = products
          /\ audit' = audit
          /\ queue' = queue
          /\ charge' = charge
          /\ worker' = worker]_vars

\* a confirmed order was cancelled: its payment is still completed, the unit
\* is still taken from the stock and the audit record is still there
C34_Witness ==
    \E r \in SagaIds :
        /\ Done(r) /\ saga[r].response.status = 201
        /\ OrderOf(r).orderStatus = "cancelled"
        /\ api = ApiAnswer("cancel", OrderOf(r).orderId, "cancelled", 200)
        /\ HasPayment(OrderOf(r).orderId, "completed")
        /\ products[OrderOf(r).productId].stock < InitStock
        /\ \E i \in 1..Len(audit) : audit[i].orderId = OrderOf(r).orderId

----------------------------------------------------------------------------
(* The pipeline with an audit store that does not fail.  The consumer is   *)
(* driven by the broker and the event loop: a message on the queue is      *)
(* handed to an idle consumer and a pending insert completes.              *)

NextIngest ==
    \/ \E r \in SagaIds, body \in ApiBodies : CreateOrder(r, body)
    \/ \E r \in SagaIds : ValidateCustomerStep(r, "none")
    \/ \E r \in SagaIds : ValidateProductStep(r, "none")
    \/ \E r \in SagaIds : SaveOrder(r, TRUE)
    \/ \E r \in SagaIds : SendPayment(r, "none", TRUE)
    \/ \E r \in SagaIds : PaymentReturn(r, TRUE)
    \/ \E r \in SagaIds : PaymentTimeout(r, TRUE)
    \/ \E r \in SagaIds : UpdateStockStep(r, "none")
    \/ \E r \in SagaIds : ProcessPaymentCreate(r, TRUE)
    \/ \E r \in SagaIds, isSuccess \in BOOLEAN :
           ProcessPaymentSettle(r, isSuccess, TRUE, TRUE)
    \/ \E r \in SagaIds, published \in BOOLEAN : ProcessPaymentPublish(r, published)
    \/ \E i \in 1..Len(orders) : CancelOrder(orders[i].orderId, TRUE)
    \/ \E w \in WorkerIds : ProcessMessage(w, TRUE)
    \/ \E w \in WorkerIds : SaveTransaction(w, TRUE)

ConsumerFairness ==
    /\ WF_vars(\E w \in WorkerIds : ProcessMessage(w, TRUE))
    /\ \A w \in WorkerIds : WF_vars(SaveTransaction(w, TRUE))

SpecIngest == InitOrders /\ [][NextIngest]_vars /\ ConsumerFairness

\* the transactionIds the payment service can issue
ChargeIds == 1..MaxSagas

\* C36: with a fair consumer and an audit store that does not fail, a
\* message of a successful charge that is on the queue leads to an audit
\* record with its transactionId and status completed, and a consumer that
\* holds a message leads to that consumer having answered it
C36_PublishedIsEventuallyRecorded ==
    /\ \A t \in ChargeIds :
          (\E i \in 1..Len(queue) : queue[i].transactionId = t)
          ~> (\E i \in 1..Len(audit) :
                  audit[i].transactionId = t /\ audit[i].status = "completed")
    /\ \A w \in WorkerIds : (worker[w].pc = "save") ~> (worker[w] = Idle)
    /\ (queue # <<>>) ~> (queue = <<>>)

\* the message of a charge was ingested and acknowledged, and no consumer
\* holds a message
C36_Witness ==
    /\ \E i \in 1..Len(audit) :
            audit[i].transactionId \in ChargeIds /\ audit[i].status = "completed"
    /\ settled # <<>> /\ \A k \in 1..Len(settled) : settled[k].how = "ack"
    /\ \A w \in WorkerIds : worker[w] = Idle
    /\ \A r \in SagaIds : Done(r)

----------------------------------------------------------------------------
(* The submit flow: createOrder requests with every fault of their         *)
(* collaborators.  A handler that can take a step takes it: its awaits     *)
(* resolve, reject or time out (axios timeouts of 5 s and 10 s).           *)

\* the steps of request r after it was received
SagaStep(r) ==
    \/ \E fault \in Faults : ValidateCustomerStep(r, fault)
    \/ \E fault \in Faults : ValidateProductStep(r, fault)
    \/ \E saveOk \in BOOLEAN : SaveOrder(r, saveOk)
    \/ \E fault \in Faults, saveOk \in BOOLEAN : SendPayment(r, fault, saveOk)
    \/ \E saveOk \in BOOLEAN : PaymentReturn(r, saveOk)
    \/ \E saveOk \in BOOLEAN : PaymentTimeout(r, saveOk)
    \/ \E fault \in Faults : UpdateStockStep(r, fault)

NextSubmit ==
    \/ \E r \in SagaIds, body \in Bodies : CreateOrder(r, body)
    \/ \E r \in SagaIds : SagaStep(r)
    \/ \E r \in SagaIds, saveOk \in BOOLEAN : ProcessPaymentCreate(r, saveOk)
    \/ \E r \in SagaIds, isSuccess \in BOOLEAN, coin \in BOOLEAN, saveOk \in BOOLEAN :
           ProcessPaymentSettle(r, isSuccess, coin, saveOk)
    \/ \E r \in SagaIds, published \in BOOLEAN : ProcessPaymentPublish(r, published)

SpecSubmit ==
    Init /\ [][NextSubmit]_vars /\ \A r \in SagaIds : WF_vars(SagaStep(r))

\* C35: a request has a response exactly when its handler has returned, the
\* response and the handler's state never change after that, and every
\* request that was received leads to its handler having returned
C35_ExactlyOneResponse ==
    /\ [](\A r \in SagaIds : Done(r) <=> saga[r].response # NoResponse)
    /\ [][\A r \in SagaIds :
            /\ Done(r) => saga'[r] = saga[r]
            /\ saga'[r].response # saga[r].response
                   => saga[r].response = NoResponse /\ saga'[r].pc = "done"]_vars
    /\ \A r \in SagaIds : (saga[r].pc # "idle") ~> Done(r)

\* the request was answered 500 after the save of its order was rejected
C35_Witness ==
    \E r \in SagaIds :
        /\ Done(r) /\ saga[r].response = InternalError
        /\ Called(r, "product") /\ ~Called(r, "payment")
        /\ saga[r].orderIdx = 0
====
